---- MODULE Spec2Model ----
(***************************************************************************)
(* Model of the two agent_manager.py command-line programs of MAF-Agents:  *)
(*   AgentId/src/agent_manager.py          (function-tool variant:         *)
(*                                          create, delete, list)          *)
(*   Foundry-IaC-Agent/src/agent_manager.py (file-search variant:          *)
(*                                          create, delete, chat)          *)
(* One process runs command invocations one after another.  Every remote   *)
(* call is one step whose outcome (success, failure, reported status) is   *)
(* chosen by the remote service.  The environment variables play the part  *)
(* of the State Store.  A second process (peer) can run the function-tool  *)
(* create at the same time, on the same State Store and service.           *)
(***************************************************************************)
EXTENDS Integers, Sequences, FiniteSets, TLC

VARIABLES
    variant,   \* which program runs: "AgentId" or "Foundry"
    env,       \* os.environ / azd environment: key -> string or None
    env0,      \* history: env as it was when the current invocation started
    pc,        \* position of the running invocation ("done" between invocations)
    cmd,       \* sys.argv[1].lower() of the current invocation (None if missing)
    loc,       \* local variables of the running handler
    log,       \* history: remote calls issued by the current invocation, in order
    exit,      \* "running", "ok" (exit code 0), "exit1" (sys.exit(1)), "raised"
    inputs,    \* history: lines read by input() in the current chat session
    remote,    \* state of the remote agent-hosting service
    hist,      \* history: one record per finished invocation
    peer       \* a second create invocation of the function-tool program,
               \* run at the same time on the same State Store

vars ==
    <<variant, env, env0, pc, cmd, loc, log, exit, inputs, remote, hist, peer>>

----------------------------------------------------------------------------
(* Bounds of the model. *)

MaxInvocations == 2
MaxPolls == 3
MaxInputs == 3

----------------------------------------------------------------------------
(* Strings.  A string is a sequence of symbols; ":" and " " are the only   *)
(* symbols the programs look inside a string for, every other symbol is a  *)
(* colon-free, space-free chunk of text.                                   *)

None == <<"<None>">>

Colon == ":"

Space == " "

Digit == <<"0", "1", "2", "3", "4", "5", "6", "7", "8", "9">>

RECURSIVE ToStr(_)
ToStr(n) ==
    IF n < 10 THEN <<Digit[n + 1]>>
    ELSE ToStr(n \div 10) \o <<Digit[(n % 10) + 1]>>

Truthy(v) == v # None /\ v # <<>>

HasColon(s) == \E i \in 1..Len(s) : s[i] = Colon

LastColon(s) == CHOOSE i \in 1..Len(s) :
    s[i] = Colon /\ \A j \in (i + 1)..Len(s) : s[j] # Colon

FirstColon(s) == CHOOSE i \in 1..Len(s) :
    s[i] = Colon /\ \A j \in 1..(i - 1) : s[j] # Colon

\* s.rsplit(":", 1) for a string that holds a colon
RSplitFirstColonBug(s) ==
    <<SubSeq(s, 1, FirstColon(s) - 1), SubSeq(s, FirstColon(s) + 1, Len(s))>>

RSplit(s) ==
    <<SubSeq(s, 1, LastColon(s) - 1), SubSeq(s, LastColon(s) + 1, Len(s))>>

\* s.split(":")[0] for a string that holds a colon
SplitHead(s) == SubSeq(s, 1, FirstColon(s) - 1)

LowerSym(c) ==
    CASE c = "CREATE" -> "create"
      [] c = "Delete" -> "delete"
      [] c = "Chat" -> "chat"
      [] c = "EXIT" -> "exit"
      [] c = "Quit" -> "quit"
      [] c = "Q" -> "q"
      [] c = "Hello" -> "hello"
      [] OTHER -> c

\* str.lower()
Lower(s) == [i \in 1..Len(s) |-> LowerSym(s[i])]

RECURSIVE LStrip(_)
LStrip(s) == IF s # <<>> /\ Head(s) = Space THEN LStrip(Tail(s)) ELSE s

RECURSIVE RStrip(_)
RStrip(s) ==
    IF s # <<>> /\ s[Len(s)] = Space THEN RStrip(SubSeq(s, 1, Len(s) - 1)) ELSE s

\* str.strip()
Strip(s) == RStrip(LStrip(s))

\* os.environ.get(key, default)
EnvGet(key, default) == IF env[key] = None THEN default ELSE env[key]

----------------------------------------------------------------------------
(* Program constants. *)

DefaultModel == <<"gpt-4.1-mini">>

DefaultAgentName == <<"OneDrive-Agent">>

IaCAgentName == <<"IaCDocumentAgent">>

VectorStoreName == <<"ProductDocsVectorStore">>

ExitTokens == {<<"quit">>, <<"exit">>, <<"q">>}

Keys == {"PROJECT_ENDPOINT", "CHAT_MODEL_DEPLOYMENT", "AGENT_ID", "AGENT_NAME",
         "VECTORSTORE_ID", "FILE_ID"}

----------------------------------------------------------------------------
(* The remote service, as the programs use it. *)

FileId(n) == <<"file-">> \o ToStr(n)

VsId(n) == <<"vs_">> \o ToStr(n)

ConvId(n) == <<"conv_">> \o ToStr(n)

\* the composite identifier of an agent version
AgentId(name, version) == name \o <<Colon>> \o ToStr(version)

\* versions of `name` the service has handed out so far
Versions(name) == {a.version : a \in {b \in remote.minted : b.name = name}}

Max(S) == CHOOSE x \in S : \A y \in S : y <= x

NextVersion(name) == IF Versions(name) = {} THEN 1 ELSE Max(Versions(name)) + 1

Statuses == {"in_progress", "completed", "failed"}

\* one remote call of the log
Call(op, args, ok, ret) == [op |-> op, args |-> args, ok |-> ok, ret |-> ret]

EmptyLoc == [model_deployment |-> None, uploaded_file |-> None,
             vector_store |-> None, vs_status |-> None, agent |-> None,
             agent_id |-> None, agent_name |-> None,
             conversation |-> None, user_input |-> None]

EmptyRemote == [files |-> {}, vstores |-> {}, agents |-> {}, minted |-> {},
                convs |-> {}, nFiles |-> 0, nVs |-> 0, nConvs |-> 0]

\* the invocation ends: its outcome is recorded
Finish(c, outcome, l) ==
    /\ pc' = "done"
    /\ exit' = outcome
    /\ hist' = Append(hist, [cmd |-> c, exit |-> outcome, agent |-> l.agent,
                             vector_store |-> l.vector_store,
                             uploaded_file |-> l.uploaded_file])

\* the exit code of the process: 0 when main() returns, 1 after sys.exit(1)
\* and after an exception nothing caught
ExitCode(outcome) == IF outcome = "ok" THEN 0 ELSE 1

\* get_project_client(): PROJECT_ENDPOINT must be set and non-empty
HasEndpointUnlessAbsent == env["PROJECT_ENDPOINT"] # None

HasEndpoint == Truthy(env["PROJECT_ENDPOINT"])

Logged(c) == log' = Append(log, c)

----------------------------------------------------------------------------
(* main(): both programs.  argv1 is sys.argv[1], or None when it is missing. *)

Commands == IF variant = "AgentId" THEN {<<"create">>, <<"delete">>, <<"list">>}
            ELSE {<<"create">>, <<"delete">>, <<"chat">>}

\* the first position of the handler main() calls
Entry(c) ==
    IF variant = "AgentId"
    THEN CASE c = <<"create">> -> "ai_create"
           [] c = <<"delete">> -> "ai_delete"
           [] c = <<"list">> -> "ai_list"
    ELSE CASE c = <<"create">> -> "fs_create"
           [] c = <<"delete">> -> "fs_delete"
           [] c = <<"chat">> -> "chat"

MainCaseSensitive(argv1) ==
    /\ pc \in {"idle", "done"}
    /\ Len(hist) < MaxInvocations
    /\ log' = <<>>
    /\ inputs' = <<>>
    /\ loc' = EmptyLoc
    /\ env0' = env
    /\ cmd' = argv1
    /\ IF argv1 \in Commands
       THEN /\ pc' = Entry(argv1)
            /\ exit' = "running"
            /\ hist' = hist
       ELSE Finish(argv1, "exit1", EmptyLoc)
    /\ UNCHANGED <<variant, peer, env, remote>>

Main(argv1) ==
    /\ pc \in {"idle", "done"}
    /\ Len(hist) < MaxInvocations
    /\ log' = <<>>
    /\ inputs' = <<>>
    /\ loc' = EmptyLoc
    /\ env0' = env
    /\ IF argv1 = None
       THEN /\ cmd' = None
            /\ Finish(None, "exit1", EmptyLoc)
       ELSE /\ cmd' = Lower(argv1)
            /\ IF Lower(argv1) \in Commands
               THEN /\ pc' = Entry(Lower(argv1))
                    /\ exit' = "running"
                    /\ hist' = hist
               ELSE Finish(Lower(argv1), "exit1", EmptyLoc)
    /\ UNCHANGED <<variant, peer, env, remote>>

----------------------------------------------------------------------------
(* Foundry-IaC-Agent: create_agent_with_vector_store() *)

\* lines 44-58: configuration, client, the document must exist
FsCreateBeginSkipsIfRecorded ==
    /\ pc = "fs_create"
    /\ \E docExists \in BOOLEAN :
        IF ~HasEndpoint \/ ~docExists
        THEN /\ Finish(cmd, "raised", loc)
             /\ loc' = loc
        ELSE IF Truthy(env["AGENT_ID"])
        THEN /\ Finish(cmd, "ok", loc)
             /\ loc' = loc
        ELSE /\ loc' = [loc EXCEPT !.model_deployment =
                            EnvGet("CHAT_MODEL_DEPLOYMENT", DefaultModel)]
             /\ pc' = "fs_upload"
             /\ UNCHANGED <<exit, hist>>
    /\ UNCHANGED <<variant, peer, env, env0, cmd, log, inputs, remote>>

FsCreateBegin ==
    /\ pc = "fs_create"
    /\ \E docExists \in BOOLEAN :
        IF ~HasEndpoint \/ ~docExists
        THEN /\ Finish(cmd, "raised", loc)
             /\ loc' = loc
        ELSE /\ loc' = [loc EXCEPT !.model_deployment =
                            EnvGet("CHAT_MODEL_DEPLOYMENT", DefaultModel)]
             /\ pc' = "fs_upload"
             /\ UNCHANGED <<exit, hist>>
    /\ UNCHANGED <<variant, peer, env, env0, cmd, log, inputs, remote>>

\* lines 60-65: openai_client.files.create
FsUploadContinuesOnFailure ==
    /\ pc = "fs_upload"
    /\ \E ok \in BOOLEAN :
        LET id == IF ok THEN FileId(remote.nFiles + 1) ELSE None IN
        /\ remote' = IF ok THEN [remote EXCEPT !.files = @ \cup {id},
                                               !.nFiles = @ + 1]
                     ELSE remote
        /\ loc' = [loc EXCEPT !.uploaded_file = id]
        /\ Logged(Call("files.create", <<<<"assistants">>>>, ok, id))
    /\ pc' = "fs_vs_create"
    /\ UNCHANGED <<variant, peer, env, env0, cmd, exit, inputs, hist>>

FsUpload ==
    /\ pc = "fs_upload"
    /\ \E ok \in BOOLEAN :
        IF ok
        THEN LET id == FileId(remote.nFiles + 1) IN
             /\ remote' = [remote EXCEPT !.files = @ \cup {id}, !.nFiles = @ + 1]
             /\ loc' = [loc EXCEPT !.uploaded_file = id]
             /\ Logged(Call("files.create", <<<<"assistants">>>>, TRUE, id))
             /\ pc' = "fs_vs_create"
             /\ UNCHANGED <<exit, hist>>
        ELSE /\ Logged(Call("files.create", <<<<"assistants">>>>, FALSE, None))
             /\ Finish(cmd, "raised", loc)
             /\ UNCHANGED <<loc, remote>>
    /\ UNCHANGED <<variant, peer, env, env0, cmd, inputs>>

\* lines 68-73: openai_client.vector_stores.create
FsCreateVectorStoreWithoutFile ==
    /\ pc = "fs_vs_create"
    /\ LET args == <<VectorStoreName, None>> IN
       \E ok \in BOOLEAN :
        IF ok
        THEN LET id == VsId(remote.nVs + 1) IN
             /\ remote' = [remote EXCEPT
                    !.vstores = @ \cup {[id |-> id, file_ids |-> {}]},
                    !.nVs = @ + 1]
             /\ loc' = [loc EXCEPT !.vector_store = id]
             /\ Logged(Call("vector_stores.create", args, TRUE, id))
             /\ pc' = "fs_wait"
             /\ UNCHANGED <<exit, hist>>
        ELSE /\ Logged(Call("vector_stores.create", args, FALSE, None))
             /\ Finish(cmd, "raised", loc)
             /\ UNCHANGED <<loc, remote>>
    /\ UNCHANGED <<variant, peer, env, env0, cmd, inputs>>

FsCreateVectorStore ==
    /\ pc = "fs_vs_create"
    /\ LET args == <<VectorStoreName, loc.uploaded_file>> IN
       \E ok \in BOOLEAN :
        IF ok
        THEN LET id == VsId(remote.nVs + 1) IN
             /\ remote' = [remote EXCEPT
                    !.vstores = @ \cup {[id |-> id, file_ids |-> {loc.uploaded_file}]},
                    !.nVs = @ + 1]
             /\ loc' = [loc EXCEPT !.vector_store = id]
             /\ Logged(Call("vector_stores.create", args, TRUE, id))
             /\ pc' = "fs_wait"
             /\ UNCHANGED <<exit, hist>>
        ELSE /\ Logged(Call("vector_stores.create", args, FALSE, None))
             /\ Finish(cmd, "raised", loc)
             /\ UNCHANGED <<loc, remote>>
    /\ UNCHANGED <<variant, peer, env, env0, cmd, inputs>>

Polls(l) == SelectSeq(l, LAMBDA c : c.op = "vector_stores.retrieve")

\* where the wait loop goes after a retrieval that reported status st
AfterPollIgnoresFailed(st) == IF st = "in_progress" THEN "fs_sleep" ELSE "fs_agent"

AfterPollNoBreak(st) == IF st = "failed" THEN "raise" ELSE "fs_sleep"

AfterPoll(st) ==
    CASE st = "completed" -> "fs_agent"
      [] st = "failed" -> "raise"
      [] OTHER -> "fs_sleep"

\* the log records the first MaxPolls - 1 retrievals of a wait and the latest
\* one: the loop itself keeps no count of its turns
LoggedPoll(c) ==
    log' = IF Len(Polls(log)) < MaxPolls THEN Append(log, c)
           ELSE [log EXCEPT ![Len(log)] = c]

\* lines 78-84: one turn of the wait loop (while True: retrieve, test)
FsRetrieve ==
    /\ pc = "fs_wait"
    /\ LET args == <<loc.vector_store>> IN
       \E r \in Statuses \cup {"error"} :
        IF r = "error"
        THEN /\ LoggedPoll(Call("vector_stores.retrieve", args, FALSE, None))
             /\ Finish(cmd, "raised", loc)
             /\ loc' = loc
        ELSE /\ LoggedPoll(Call("vector_stores.retrieve", args, TRUE, <<r>>))
             /\ loc' = [loc EXCEPT !.vs_status = <<r>>]
             /\ IF AfterPoll(r) = "raise"
                THEN Finish(cmd, "raised", loc')
                ELSE /\ pc' = AfterPoll(r)
                     /\ UNCHANGED <<exit, hist>>
    /\ UNCHANGED <<variant, peer, env, env0, cmd, inputs, remote>>

\* line 85: time.sleep(1), then the next turn of the loop
FsSleepGivesUp ==
    /\ pc = "fs_sleep"
    /\ IF Len(Polls(log)) < MaxPolls
       THEN /\ pc' = "fs_wait"
            /\ UNCHANGED <<exit, hist>>
       ELSE Finish(cmd, "raised", loc)
    /\ UNCHANGED <<variant, peer, env, env0, cmd, loc, log, inputs, remote>>

FsSleep ==
    /\ pc = "fs_sleep"
    /\ pc' = "fs_wait"
    /\ UNCHANGED <<variant, peer, env, env0, cmd, loc, log, exit, inputs, remote, hist>>

\* the service's create_version: the next version under `name`
MintAgent(name, model, vs) ==
    LET v == NextVersion(name)
        a == [id |-> AgentId(name, v), name |-> name, version |-> v,
              model |-> model, vs |-> vs]
    IN  [remote EXCEPT !.agents = @ \cup {a}, !.minted = @ \cup {a}]

\* lines 90-117: the definition, agents.create_version, return
FsCreateVersion ==
    /\ pc = "fs_agent"
    /\ LET args == <<IaCAgentName, loc.model_deployment, loc.vector_store>> IN
       \E ok \in BOOLEAN :
        IF ok
        THEN LET id == AgentId(IaCAgentName, NextVersion(IaCAgentName)) IN
             /\ remote' = MintAgent(IaCAgentName, loc.model_deployment,
                                    loc.vector_store)
             /\ loc' = [loc EXCEPT !.agent = id]
             /\ Logged(Call("agents.create_version", args, TRUE, id))
             /\ Finish(cmd, "ok", loc')
        ELSE /\ Logged(Call("agents.create_version", args, FALSE, None))
             /\ Finish(cmd, "raised", loc)
             /\ UNCHANGED <<loc, remote>>
    /\ UNCHANGED <<variant, peer, env, env0, cmd, inputs>>

----------------------------------------------------------------------------
(* AgentId: create_agent() *)

\* lines 104-109: get_env_or_fail, the agent name, the client
AiCreateBegin ==
    /\ pc = "ai_create"
    /\ IF ~Truthy(env["CHAT_MODEL_DEPLOYMENT"]) \/ ~HasEndpoint
       THEN /\ Finish(cmd, "exit1", loc)
            /\ loc' = loc
       ELSE /\ loc' = [loc EXCEPT
                  !.model_deployment = env["CHAT_MODEL_DEPLOYMENT"],
                  !.agent_name = EnvGet("AGENT_NAME", DefaultAgentName)]
            /\ pc' = "ai_agent"
            /\ UNCHANGED <<exit, hist>>
    /\ UNCHANGED <<variant, peer, env, env0, cmd, log, inputs, remote>>

\* lines 112-124: the definition, agents.create_version
AiCreateVersion ==
    /\ pc = "ai_agent"
    /\ LET args == <<loc.agent_name, loc.model_deployment, None>> IN
       \E ok \in BOOLEAN :
        IF ok
        THEN LET id == AgentId(loc.agent_name, NextVersion(loc.agent_name)) IN
             /\ remote' = MintAgent(loc.agent_name, loc.model_deployment, None)
             /\ loc' = [loc EXCEPT !.agent = id]
             /\ Logged(Call("agents.create_version", args, TRUE, id))
             /\ pc' = "ai_set_id"
             /\ UNCHANGED <<exit, hist>>
        ELSE /\ Logged(Call("agents.create_version", args, FALSE, None))
             /\ Finish(cmd, "raised", loc)
             /\ UNCHANGED <<loc, remote>>
    /\ UNCHANGED <<variant, peer, env, env0, cmd, inputs>>

\* os.system('azd env set KEY "value"'): the State Store write
AzdEnvSet(key, value) == env' = [env EXCEPT ![key] = value]

\* line 127
AiSetAgentIdSkipped ==
    /\ pc = "ai_set_id"
    /\ pc' = "ai_set_name"
    /\ UNCHANGED <<variant, peer, env, env0, cmd, loc, log, exit, inputs, remote, hist>>

AiSetAgentId ==
    /\ pc = "ai_set_id"
    /\ AzdEnvSet("AGENT_ID", loc.agent)
    /\ pc' = "ai_set_name"
    /\ UNCHANGED <<variant, peer, env0, cmd, loc, log, exit, inputs, remote, hist>>

\* lines 128-136
AiSetAgentName ==
    /\ pc = "ai_set_name"
    /\ AzdEnvSet("AGENT_NAME", loc.agent_name)
    /\ Finish(cmd, "ok", loc)
    /\ UNCHANGED <<variant, peer, env0, cmd, loc, log, inputs, remote>>

----------------------------------------------------------------------------
(* AgentId: create_agent() run by a second process at the same time.  The   *)
(* two processes share the State Store (the azd environment) and the       *)
(* service; each has its own local variables and its own AGENT_NAME.       *)

\* no second invocation has started
PeerOff == [pc |-> "off", exit |-> "none", model_deployment |-> None,
            agent_name |-> None, agent |-> None]

\* the AGENT_NAME the second process was started with
PeerNames == {None, <<"MyAgent">>}

\* main() with "create", lines 104-109 (name: the process's AGENT_NAME)
PeerCreateBegin(name) ==
    /\ variant = "AgentId"
    /\ peer.pc = "off"
    /\ IF ~Truthy(env["CHAT_MODEL_DEPLOYMENT"]) \/ ~HasEndpoint
       THEN peer' = [peer EXCEPT !.pc = "done", !.exit = "exit1"]
       ELSE peer' = [peer EXCEPT
                !.pc = "ai_agent", !.exit = "running",
                !.model_deployment = env["CHAT_MODEL_DEPLOYMENT"],
                !.agent_name = IF name = None THEN DefaultAgentName ELSE name]
    /\ UNCHANGED <<variant, env, env0, pc, cmd, loc, log, exit, inputs, remote,
                   hist>>

\* lines 112-124
PeerCreateVersion ==
    /\ peer.pc = "ai_agent"
    /\ \E ok \in BOOLEAN :
        IF ok
        THEN /\ remote' = MintAgent(peer.agent_name, peer.model_deployment, None)
             /\ peer' = [peer EXCEPT
                    !.pc = "ai_set_id",
                    !.agent = AgentId(peer.agent_name,
                                      NextVersion(peer.agent_name))]
        ELSE /\ peer' = [peer EXCEPT !.pc = "done", !.exit = "raised"]
             /\ remote' = remote
    /\ UNCHANGED <<variant, env, env0, pc, cmd, loc, log, exit, inputs, hist>>

\* line 127
PeerSetAgentIdLocked ==
    /\ peer.pc = "ai_set_id"
    /\ pc # "ai_set_name"
    /\ AzdEnvSet("AGENT_ID", peer.agent)
    /\ peer' = [peer EXCEPT !.pc = "ai_set_name"]
    /\ UNCHANGED <<variant, env0, pc, cmd, loc, log, exit, inputs, remote, hist>>

PeerSetAgentId ==
    /\ peer.pc = "ai_set_id"
    /\ AzdEnvSet("AGENT_ID", peer.agent)
    /\ peer' = [peer EXCEPT !.pc = "ai_set_name"]
    /\ UNCHANGED <<variant, env0, pc, cmd, loc, log, exit, inputs, remote, hist>>

\* lines 128-136
PeerSetAgentName ==
    /\ peer.pc = "ai_set_name"
    /\ AzdEnvSet("AGENT_NAME", peer.agent_name)
    /\ peer' = [peer EXCEPT !.pc = "done", !.exit = "ok"]
    /\ UNCHANGED <<variant, env0, pc, cmd, loc, log, exit, inputs, remote, hist>>

----------------------------------------------------------------------------
(* The service's deletes: the resource is gone when the call succeeds. *)

RemoveAgent(name, version) ==
    [remote EXCEPT !.agents =
        {a \in @ : ~(a.name = name /\ ToStr(a.version) = version)}]

RemoveVectorStore(id) == [remote EXCEPT !.vstores = {v \in @ : v.id # id}]

RemoveFile(id) == [remote EXCEPT !.files = @ \ {id}]

----------------------------------------------------------------------------
(* AgentId: delete_agent() and list_agents() *)

\* lines 141-150: nothing to delete without AGENT_ID; then the client
AiDeleteBeginClearsId ==
    /\ pc = "ai_delete"
    /\ loc' = [loc EXCEPT !.agent_id = env["AGENT_ID"],
                          !.agent_name = EnvGet("AGENT_NAME", DefaultAgentName)]
    /\ IF ~Truthy(env["AGENT_ID"])
       THEN Finish(cmd, "ok", EmptyLoc) /\ env' = env
       ELSE IF ~HasEndpoint
            THEN Finish(cmd, "exit1", EmptyLoc) /\ env' = env
            ELSE /\ pc' = "ai_del_agent"
                 /\ AzdEnvSet("AGENT_ID", <<>>)
                 /\ UNCHANGED <<exit, hist>>
    /\ UNCHANGED <<variant, peer, env0, cmd, log, inputs, remote>>

AiDeleteBegin ==
    /\ pc = "ai_delete"
    /\ loc' = [loc EXCEPT !.agent_id = env["AGENT_ID"],
                          !.agent_name = EnvGet("AGENT_NAME", DefaultAgentName)]
    /\ IF ~Truthy(env["AGENT_ID"])
       THEN Finish(cmd, "ok", EmptyLoc)
       ELSE IF ~HasEndpoint
            THEN Finish(cmd, "exit1", EmptyLoc)
            ELSE /\ pc' = "ai_del_agent"
                 /\ UNCHANGED <<exit, hist>>
    /\ UNCHANGED <<variant, peer, env, env0, cmd, log, inputs, remote>>

\* lines 154-159: the name and version delete_version is called with
AiDeleteTarget(agent_id, agent_name) ==
    IF HasColon(agent_id) THEN RSplit(agent_id) ELSE <<agent_name, <<"1">>>>

\* lines 152-162: delete_version inside try/except Exception
AiDeleteVersion ==
    /\ pc = "ai_del_agent"
    /\ LET t == AiDeleteTarget(loc.agent_id, loc.agent_name) IN
       \E ok \in BOOLEAN :
        /\ Logged(Call("agents.delete_version", t, ok, None))
        /\ remote' = IF ok THEN RemoveAgent(t[1], t[2]) ELSE remote
    /\ Finish(cmd, "ok", EmptyLoc)
    /\ UNCHANGED <<variant, peer, env, env0, cmd, loc, inputs>>

\* lines 165-174: the client, agents.list
AiList ==
    /\ pc = "ai_list"
    /\ IF ~HasEndpoint
       THEN /\ Finish(cmd, "exit1", EmptyLoc)
            /\ log' = log
       ELSE \E ok \in BOOLEAN :
            /\ Logged(Call("agents.list", <<>>, ok, None))
            /\ Finish(cmd, IF ok THEN "ok" ELSE "raised", EmptyLoc)
    /\ UNCHANGED <<variant, peer, env, env0, cmd, loc, inputs, remote>>

----------------------------------------------------------------------------
(* Foundry-IaC-Agent: delete_agent_and_resources() *)

\* lines 126-133: the three identifiers, the client
FsDeleteBeginFileFirst ==
    /\ pc = "fs_delete"
    /\ IF ~HasEndpoint
       THEN /\ Finish(cmd, "raised", EmptyLoc)
            /\ UNCHANGED <<loc, log, remote>>
       ELSE /\ loc' = [loc EXCEPT !.agent_id = env["AGENT_ID"]]
            /\ pc' = "fs_del_agent"
            /\ IF Truthy(env["FILE_ID"])
               THEN \E ok \in BOOLEAN :
                     /\ Logged(Call("files.delete", <<env["FILE_ID"]>>, ok, None))
                     /\ remote' = IF ok THEN RemoveFile(env["FILE_ID"])
                                  ELSE remote
               ELSE UNCHANGED <<log, remote>>
            /\ UNCHANGED <<exit, hist>>
    /\ UNCHANGED <<variant, peer, env, env0, cmd, inputs>>

FsDeleteBegin ==
    /\ pc = "fs_delete"
    /\ IF ~HasEndpoint
       THEN /\ Finish(cmd, "raised", EmptyLoc)
            /\ loc' = loc
       ELSE /\ loc' = [loc EXCEPT !.agent_id = env["AGENT_ID"]]
            /\ pc' = "fs_del_agent"
            /\ UNCHANGED <<exit, hist>>
    /\ UNCHANGED <<variant, peer, env, env0, cmd, log, inputs, remote>>

\* lines 139-143: the name and version delete_version is called with
FsDeleteTarget(agent_id) ==
    IF HasColon(agent_id) THEN RSplit(agent_id) ELSE <<agent_id, <<"1">>>>

\* lines 136-149: the agent, inside try/except Exception
FsDeleteAgentStopsOnFailure ==
    /\ pc = "fs_del_agent"
    /\ IF Truthy(loc.agent_id)
       THEN LET t == FsDeleteTarget(loc.agent_id) IN
            \E ok \in BOOLEAN :
             /\ Logged(Call("agents.delete_version", t, ok, None))
             /\ remote' = IF ok THEN RemoveAgent(t[1], t[2]) ELSE remote
             /\ IF ok
                THEN /\ pc' = "fs_del_vs"
                     /\ UNCHANGED <<exit, hist>>
                ELSE Finish(cmd, "raised", EmptyLoc)
       ELSE /\ pc' = "fs_del_vs"
            /\ UNCHANGED <<log, remote, exit, hist>>
    /\ UNCHANGED <<variant, peer, env, env0, cmd, loc, inputs>>

FsDeleteAgent ==
    /\ pc = "fs_del_agent"
    /\ IF Truthy(loc.agent_id)
       THEN LET t == FsDeleteTarget(loc.agent_id) IN
            \E ok \in BOOLEAN :
             /\ Logged(Call("agents.delete_version", t, ok, None))
             /\ remote' = IF ok THEN RemoveAgent(t[1], t[2]) ELSE remote
       ELSE UNCHANGED <<log, remote>>
    /\ pc' = "fs_del_vs"
    /\ UNCHANGED <<variant, peer, env, env0, cmd, loc, exit, inputs, hist>>

\* whether the vector-store step issues its delete call (line 152)
DeletesVectorStoreAlways == TRUE

DeletesVectorStore == Truthy(env["VECTORSTORE_ID"])

\* lines 152-158: the vector store, inside try/except Exception
FsDeleteVectorStore ==
    /\ pc = "fs_del_vs"
    /\ IF DeletesVectorStore
       THEN \E ok \in BOOLEAN :
             /\ Logged(Call("vector_stores.delete", <<env["VECTORSTORE_ID"]>>,
                            ok, None))
             /\ remote' = IF ok THEN RemoveVectorStore(env["VECTORSTORE_ID"])
                          ELSE remote
       ELSE UNCHANGED <<log, remote>>
    /\ pc' = "fs_del_file"
    /\ UNCHANGED <<variant, peer, env, env0, cmd, loc, exit, inputs, hist>>

\* lines 161-170: the file, inside try/except Exception; "Cleanup completed."
FsDeleteFile ==
    /\ pc = "fs_del_file"
    /\ IF Truthy(env["FILE_ID"])
       THEN \E ok \in BOOLEAN :
             /\ Logged(Call("files.delete", <<env["FILE_ID"]>>, ok, None))
             /\ remote' = IF ok THEN RemoveFile(env["FILE_ID"]) ELSE remote
       ELSE UNCHANGED <<log, remote>>
    /\ Finish(cmd, "ok", EmptyLoc)
    /\ UNCHANGED <<variant, peer, env, env0, cmd, loc, inputs>>

----------------------------------------------------------------------------
(* Foundry-IaC-Agent: chat_with_agent() *)

\* line 184: the agent name the session uses
ChatAgentName(agent_id) ==
    IF HasColon(agent_id) THEN SplitHead(agent_id) ELSE agent_id

\* lines 178-191: AGENT_ID must be set; the agent name; the client
ChatBegin ==
    /\ pc = "chat"
    /\ IF ~Truthy(env["AGENT_ID"])
       THEN /\ Finish(cmd, "exit1", EmptyLoc)
            /\ loc' = loc
       ELSE IF ~HasEndpoint
            THEN /\ Finish(cmd, "raised", EmptyLoc)
                 /\ loc' = loc
            ELSE /\ loc' = [loc EXCEPT !.agent_id = env["AGENT_ID"],
                               !.agent_name = ChatAgentName(env["AGENT_ID"])]
                 /\ pc' = "chat_conv"
                 /\ UNCHANGED <<exit, hist>>
    /\ UNCHANGED <<variant, peer, env, env0, cmd, log, inputs, remote>>

\* lines 194-197: conversations.create(items=[])
ChatCreateConversation ==
    /\ pc = "chat_conv"
    /\ \E ok \in BOOLEAN :
        IF ok
        THEN LET id == ConvId(remote.nConvs + 1) IN
             /\ remote' = [remote EXCEPT !.convs = @ \cup {id}, !.nConvs = @ + 1]
             /\ loc' = [loc EXCEPT !.conversation = id]
             /\ Logged(Call("conversations.create", <<>>, TRUE, id))
             /\ pc' = "chat_read"
             /\ UNCHANGED <<exit, hist>>
        ELSE /\ Logged(Call("conversations.create", <<>>, FALSE, None))
             /\ Finish(cmd, "raised", EmptyLoc)
             /\ UNCHANGED <<loc, remote>>
    /\ UNCHANGED <<variant, peer, env, env0, cmd, inputs>>

\* the end of standard input: input() raises EOFError
EOF == <<"<EOF>">>

\* where the loop goes with the stripped line (lines 201-211)
AfterReadBlankNotSkipped(user_input) ==
    IF Lower(user_input) \in ExitTokens THEN "chat_delete" ELSE "chat_append"

AfterRead(user_input) ==
    IF Lower(user_input) \in ExitTokens THEN "chat_delete"
    ELSE IF user_input = <<>> THEN "chat_read"
    ELSE "chat_append"

\* lines 200-211: read one line, strip it, test it
ChatRead(line) ==
    /\ pc = "chat_read"
    /\ Len(inputs) < MaxInputs
    /\ inputs' = Append(inputs, line)
    /\ IF line = EOF
       THEN /\ Finish(cmd, "raised", EmptyLoc)
            /\ loc' = loc
       ELSE /\ loc' = [loc EXCEPT !.user_input = Strip(line)]
            /\ pc' = AfterRead(Strip(line))
            /\ UNCHANGED <<exit, hist>>
    /\ UNCHANGED <<variant, peer, env, env0, cmd, log, remote>>

\* what the session does when the conversation's deletion fails (lines 205-206)
OnDeleteFailureRaises == "raised"

OnDeleteFailure == "ok"

\* lines 203-208: conversations.delete inside try/except, "Goodbye!", break
ChatDeleteConversation ==
    /\ pc = "chat_delete"
    /\ \E ok \in BOOLEAN :
        /\ Logged(Call("conversations.delete", <<loc.conversation>>, ok, None))
        /\ remote' = IF ok THEN [remote EXCEPT !.convs = @ \ {loc.conversation}]
                     ELSE remote
        /\ Finish(cmd, IF ok THEN "ok" ELSE OnDeleteFailure, EmptyLoc)
    /\ UNCHANGED <<variant, peer, env, env0, cmd, loc, inputs>>

\* lines 214-217: conversations.items.create
ChatAppendIgnoresFailure ==
    /\ pc = "chat_append"
    /\ \E ok \in BOOLEAN :
        Logged(Call("conversations.items.create",
                    <<loc.conversation, <<"user">>, loc.user_input>>, ok, None))
    /\ pc' = "chat_respond"
    /\ UNCHANGED <<variant, peer, env, env0, cmd, loc, exit, inputs, remote, hist>>

ChatAppend ==
    /\ pc = "chat_append"
    /\ \E ok \in BOOLEAN :
        /\ Logged(Call("conversations.items.create",
                       <<loc.conversation, <<"user">>, loc.user_input>>, ok, None))
        /\ IF ok
           THEN /\ pc' = "chat_respond"
                /\ UNCHANGED <<exit, hist>>
           ELSE Finish(cmd, "raised", EmptyLoc)
    /\ UNCHANGED <<variant, peer, env, env0, cmd, loc, inputs, remote>>

\* lines 220-226: responses.create scoped to the conversation and the agent
ChatRespond ==
    /\ pc = "chat_respond"
    /\ \E ok \in BOOLEAN :
        /\ Logged(Call("responses.create",
                       <<loc.conversation, loc.agent_name>>, ok, None))
        /\ IF ok
           THEN /\ pc' = "chat_read"
                /\ UNCHANGED <<exit, hist>>
           ELSE Finish(cmd, "raised", EmptyLoc)
    /\ UNCHANGED <<variant, peer, env, env0, cmd, loc, inputs, remote>>

----------------------------------------------------------------------------
(* The inputs: the environment a run starts with, the command lines, the   *)
(* lines typed into a chat session.                                        *)

Variants == {"AgentId", "Foundry"}

Endpoints == {None, <<>>, <<"https://project">>}

Models == {None, <<>>, <<"gpt-4o">>}

AgentIds == {None, <<>>, <<"MyAgent">>, <<"MyAgent", ":", "3">>,
             <<"My", ":", "Agent", ":", "3">>, <<"IaCDocumentAgent", ":", "1">>}

AgentNames == {None, <<"MyAgent">>}

VectorStoreIds == {None, <<>>, <<"vs_old">>}

FileIds == {None, <<>>, <<"file-old">>}

Argvs == {None, <<"create">>, <<"CREATE">>, <<"delete">>, <<"Delete">>,
          <<"chat">>, <<"list">>, <<"deploy">>}

Lines == {<<"hello">>, <<>>, <<" ">>, <<" ", "Hello", " ", "there", " ">>,
          <<"exit">>, <<"Quit">>, <<" ", "Q">>, <<"exit", " ", "now">>, EOF}

\* a few of them, for the runs that mix every command
FewLines == {<<"hello">>, <<" ">>, <<"Quit">>, EOF}

InitWith(vs, eps, ms, ids, names, vsids, fids) ==
    /\ variant \in vs
    /\ \E ep \in eps, m \in ms, id \in ids, n \in names, v \in vsids, f \in fids :
        env = [k \in Keys |->
                 CASE k = "PROJECT_ENDPOINT" -> ep
                   [] k = "CHAT_MODEL_DEPLOYMENT" -> m
                   [] k = "AGENT_ID" -> id
                   [] k = "AGENT_NAME" -> n
                   [] k = "VECTORSTORE_ID" -> v
                   [] k = "FILE_ID" -> f]
    /\ env0 = env
    /\ pc = "idle"
    /\ cmd = None
    /\ loc = EmptyLoc
    /\ log = <<>>
    /\ exit = "none"
    /\ inputs = <<>>
    /\ remote = EmptyRemote
    /\ hist = <<>>
    /\ peer = PeerOff

Handlers ==
    \/ FsCreateBegin \/ FsUpload \/ FsCreateVectorStore \/ FsRetrieve \/ FsSleep
    \/ FsCreateVersion
    \/ AiCreateBegin \/ AiCreateVersion \/ AiSetAgentId \/ AiSetAgentName
    \/ AiDeleteBegin \/ AiDeleteVersion \/ AiList
    \/ FsDeleteBegin \/ FsDeleteAgent \/ FsDeleteVectorStore \/ FsDeleteFile
    \/ ChatBegin \/ ChatCreateConversation
    \/ (\E line \in FewLines : ChatRead(line))
    \/ ChatDeleteConversation \/ ChatAppend \/ ChatRespond

(* Every command of both programs, from a small environment. *)

Init == InitWith(Variants, Endpoints, {None, <<"gpt-4o">>},
                 {None, <<>>, <<"IaCDocumentAgent", ":", "1">>}, AgentNames,
                 {None, <<"vs_old">>}, {None, <<"file-old">>})

Next == (\E a \in Argvs : Main(a)) \/ Handlers

Spec == Init /\ [][Next]_vars

(* The delete commands of both programs, from every persisted state. *)

DeleteHandlers ==
    \/ AiDeleteBegin \/ AiDeleteVersion
    \/ FsDeleteBegin \/ FsDeleteAgent \/ FsDeleteVectorStore \/ FsDeleteFile

InitDelete == InitWith(Variants, {None, <<"https://project">>}, {None}, AgentIds,
                       AgentNames, VectorStoreIds, FileIds)

NextDelete == (\E a \in {<<"delete">>, <<"Delete">>} : Main(a)) \/ DeleteHandlers

SpecDelete == InitDelete /\ [][NextDelete]_vars

(* The chat command, for every persisted agent id. *)

ChatHandlers ==
    \/ ChatBegin \/ ChatCreateConversation \/ (\E line \in Lines : ChatRead(line))
    \/ ChatDeleteConversation \/ ChatAppend \/ ChatRespond

InitChat == InitWith({"Foundry"}, {None, <<"https://project">>}, {None}, AgentIds,
                     {None}, {None}, {None})

NextChat == Main(<<"chat">>) \/ ChatHandlers

SpecChat == InitChat /\ [][NextChat]_vars

(* The create commands of both programs, for every configuration.  The     *)
(* process keeps running: a retrieval that was issued returns and a sleep  *)
(* ends, so the wait loop takes its next turn.  Nothing is assumed of what *)
(* the service reports.                                                    *)

CreateHandlers ==
    \/ FsCreateBegin \/ FsUpload \/ FsCreateVectorStore \/ FsRetrieve \/ FsSleep
    \/ FsCreateVersion
    \/ AiCreateBegin \/ AiCreateVersion \/ AiSetAgentId \/ AiSetAgentName

InitCreate == InitWith(Variants, Endpoints, Models, {None}, AgentNames, {None},
                       {None})

NextCreate == (\E a \in {<<"create">>, <<"CREATE">>} : Main(a)) \/ CreateHandlers

SpecCreate ==
    InitCreate /\ [][NextCreate]_vars /\ WF_vars(FsRetrieve) /\ WF_vars(FsSleep)

(* Two create invocations of the function-tool program at the same time. *)

RaceHandlers ==
    \/ AiCreateBegin \/ AiCreateVersion \/ AiSetAgentId \/ AiSetAgentName
    \/ (\E name \in PeerNames : PeerCreateBegin(name))
    \/ PeerCreateVersion \/ PeerSetAgentId \/ PeerSetAgentName

InitRace == InitWith({"AgentId"}, {None, <<"https://project">>},
                     {None, <<"gpt-4o">>}, {None}, AgentNames, {None}, {None})

NextRace == Main(<<"create">>) \/ RaceHandlers

SpecRace == InitRace /\ [][NextRace]_vars

----------------------------------------------------------------------------
(* Properties. *)

Last(s) == s[Len(s)]

Ops(l) == [i \in 1..Len(l) |-> l[i].op]

InFsCreate == variant = "Foundry" /\ cmd = <<"create">>

InAiCreate == variant = "AgentId" /\ cmd = <<"create">>

\* the positions of the log that hold a status retrieval
PollAt(i) == log[i].op = "vector_stores.retrieve"

\* C1: in the file-search create, agents.create_version is issued only when
\* the most recent status retrieved for the vector store created by this
\* invocation is "completed": the call is never enabled, and never in the
\* log, after a last observed status of in_progress or failed.
C1_AgentOnlyAfterCompleted ==
    InFsCreate =>
      /\ pc = "fs_agent" =>
            /\ loc.vs_status = <<"completed">>
            /\ log # <<>> /\ PollAt(Len(log))
            /\ Last(log).ret = <<"completed">>
            /\ Last(log).args = <<loc.vector_store>>
      /\ \A i \in 1..Len(log) :
            log[i].op = "agents.create_version" =>
              /\ i > 1 /\ PollAt(i - 1)
              /\ log[i - 1].ok /\ log[i - 1].ret = <<"completed">>
              /\ <<log[i].args[3]>> = log[i - 1].args
              /\ \E j \in 1..(i - 1) :
                    /\ log[j].op = "vector_stores.create" /\ log[j].ok
                    /\ log[j].ret = log[i].args[3]
      /\ \A a \in remote.agents :
            a.id = loc.agent => loc.vs_status = <<"completed">>

\* C1 witness: an agent was created after the store was seen in_progress
\* and then completed.
C1_Witness ==
    /\ InFsCreate /\ pc = "done" /\ exit = "ok"
    /\ Len(log) = 5
    /\ log[3].ret = <<"in_progress">> /\ log[4].ret = <<"completed">>
    /\ Last(log).op = "agents.create_version" /\ Last(log).ok

\* the status retrievals of the current invocation, in order
PollLog == Polls(log)

\* C2: the readiness wait stops at the first terminal status: every
\* retrieval but the last reported in_progress, so a first terminal status
\* at position k means exactly k retrievals; after "completed" the wait has
\* returned normally (the agent creation is next), after "failed" the
\* invocation has failed with that retrieval as its last call.
C2_WaitStopsAtFirstTerminal ==
    InFsCreate =>
      LET P == PollLog
          k == Len(P)
      IN  /\ \A i \in 1..(k - 1) : P[i].ok /\ P[i].ret = <<"in_progress">>
          /\ (k > 0 /\ P[k].ok /\ P[k].ret = <<"completed">>) =>
                /\ pc \in {"fs_agent", "done"}
                /\ pc = "done" => Last(log).op = "agents.create_version"
          /\ (k > 0 /\ P[k].ok /\ P[k].ret = <<"failed">>) =>
                /\ pc = "done" /\ exit = "raised"
                /\ Last(log) = P[k]
          /\ (k > 0 /\ P[k].ok /\ P[k].ret = <<"in_progress">>) =>
                pc \in {"fs_sleep", "fs_wait"}
          /\ pc \in {"fs_sleep", "fs_wait"} =>
                \A i \in 1..k : P[i].ret = <<"in_progress">>

\* C2 witness: [in_progress, in_progress, completed] returned after 3 polls.
C2_Witness ==
    /\ InFsCreate /\ pc = "fs_agent"
    /\ [i \in 1..Len(PollLog) |-> PollLog[i].ret] =
          <<<<"in_progress">>, <<"in_progress">>, <<"completed">>>>

InFsDelete == variant = "Foundry" /\ cmd = <<"delete">>

InAiDelete == variant = "AgentId" /\ cmd = <<"delete">>

DeleteOps == {"agents.delete_version", "vector_stores.delete", "files.delete"}

\* a file-search delete that got its client and ran to its end
FsDeleteEnded == InFsDelete /\ pc = "done" /\ Truthy(env["PROJECT_ENDPOINT"])

\* C3: with agent id, vector-store id and file id all present, whichever of
\* the three delete calls fail, a finished delete has attempted each of the
\* three deletions exactly once (agent, vector store, file) and has
\* returned normally.
C3_BestEffortTeardown ==
    /\ (FsDeleteEnded /\ Truthy(env["AGENT_ID"]) /\ Truthy(env["VECTORSTORE_ID"])
            /\ Truthy(env["FILE_ID"])) =>
          /\ exit = "ok"
          /\ Ops(log) = <<"agents.delete_version", "vector_stores.delete",
                          "files.delete">>
          /\ log[2].args = <<env["VECTORSTORE_ID"]>>
          /\ log[3].args = <<env["FILE_ID"]>>
    /\ InFsDelete =>
          \A i \in 1..Len(log) : ~log[i].ok => exit # "raised"

\* C3 witness: all three deletions were attempted and all three failed.
C3_Witness ==
    /\ FsDeleteEnded /\ exit = "ok"
    /\ Len(log) = 3
    /\ \A i \in 1..3 : ~log[i].ok

\* the delete calls a teardown owes for the identifiers that are present
ExpectedDeletes ==
    (IF Truthy(env["AGENT_ID"]) THEN <<"agents.delete_version">> ELSE <<>>)
    \o (IF Truthy(env["VECTORSTORE_ID"]) THEN <<"vector_stores.delete">> ELSE <<>>)
    \o (IF Truthy(env["FILE_ID"]) THEN <<"files.delete">> ELSE <<>>)

\* C6: for every subset of the three identifiers present (set and not
\* empty) in the State Store, a finished file-search teardown has issued a
\* delete call for exactly the resources whose identifier is present, each
\* with the persisted identifier, none for the absent ones, and has not
\* raised.
C6_DeletesExactlyPresent ==
    FsDeleteEnded =>
      /\ exit = "ok"
      /\ Ops(log) = ExpectedDeletes
      /\ \A i \in 1..Len(log) :
            /\ log[i].op = "vector_stores.delete" =>
                  log[i].args = <<env["VECTORSTORE_ID"]>>
            /\ log[i].op = "files.delete" => log[i].args = <<env["FILE_ID"]>>

\* C6 witness: only VECTORSTORE_ID set, exactly the vector store deleted.
C6_Witness ==
    /\ FsDeleteEnded /\ exit = "ok"
    /\ env["AGENT_ID"] = None /\ env["FILE_ID"] = None
    /\ Ops(log) = <<"vector_stores.delete">>
    /\ log[1].args = <<<<"vs_old">>>>

\* the parse the claim describes, for one delete_version call c of an id:
\* name:version gives that name and that (colon-free) version
ParsedWithColon(c, id) ==
    /\ c.args[1] \o <<Colon>> \o c.args[2] = id
    /\ ~HasColon(c.args[2])

\* C7 (as amended): every delete_version call is issued for the name and
\* version parsed from the persisted agent id: name:version gives that name
\* and that version in both programs; an id with no colon gives version "1"
\* and, in the file-search program, the whole id as the name, while the
\* function-tool program then takes the name from AGENT_NAME (default
\* "OneDrive-Agent") and not from the id.
C7_DeleteTarget ==
    (InFsDelete \/ InAiDelete) =>
      \A i \in 1..Len(log) :
        log[i].op = "agents.delete_version" =>
          IF HasColon(env["AGENT_ID"])
          THEN ParsedWithColon(log[i], env["AGENT_ID"])
          ELSE /\ log[i].args[2] = <<"1">>
               /\ log[i].args[1] =
                    IF variant = "Foundry" THEN env["AGENT_ID"]
                    ELSE IF env["AGENT_NAME"] = None THEN DefaultAgentName
                    ELSE env["AGENT_NAME"]

\* C7 as stated: in both programs an id with no colon is deleted under the
\* whole id as the name, with version "1".
C7_Original ==
    (InFsDelete \/ InAiDelete) =>
      \A i \in 1..Len(log) :
        log[i].op = "agents.delete_version" =>
          IF HasColon(env["AGENT_ID"])
          THEN ParsedWithColon(log[i], env["AGENT_ID"])
          ELSE log[i].args = <<env["AGENT_ID"], <<"1">>>>

\* C7 witness: the function-tool delete of "MyAgent" (no colon) went to the
\* default agent name; reached too: "MyAgent:3" in the file-search program.
C7_Witness ==
    /\ InAiDelete /\ pc = "done"
    /\ env["AGENT_ID"] = <<"MyAgent">> /\ env["AGENT_NAME"] = None
    /\ Len(log) = 1
    /\ log[1].args = <<DefaultAgentName, <<"1">>>>

\* a create invocation that has ended successfully
CreateSucceeded == cmd = <<"create">> /\ pc = "done" /\ exit = "ok"

\* the agent the current invocation created, as the service holds it
CreatedAgents == {a \in remote.agents : a.id = loc.agent}

Failure(c) == ~c.ok \/ (c.op = "vector_stores.retrieve" /\ c.ret = <<"failed">>)

\* the resources the successful calls of the log created
FilesCreated ==
    {log[i].ret : i \in {j \in 1..Len(log) : log[j].op = "files.create" /\ log[j].ok}}

VectorStoresCreated ==
    {log[i].ret : i \in {j \in 1..Len(log) :
                            log[j].op = "vector_stores.create" /\ log[j].ok}}

\* C5: a failure at any step of the provisioning chain ends the invocation
\* there: the failed step is the last call issued, the invocation has
\* raised, no delete call was issued, the resources already created still
\* exist, and the State Store is as it was when the invocation started.
C5_FailureAborts ==
    cmd = <<"create">> =>
      /\ \A i \in 1..Len(log) :
            Failure(log[i]) =>
              /\ i = Len(log)
              /\ pc = "done" /\ exit = "raised"
              /\ env = env0
              /\ FilesCreated \subseteq remote.files
              /\ VectorStoresCreated \subseteq {v.id : v \in remote.vstores}
      /\ \A i \in 1..Len(log) : log[i].op \notin DeleteOps
      /\ exit \in {"raised", "exit1"} => env = env0
      /\ env # env0 => /\ log # <<>>
                       /\ Last(log).op = "agents.create_version" /\ Last(log).ok

\* C5 witness: the store reported failed after the file and the vector
\* store had been created; both are still there, unrecorded.
C5_Witness ==
    /\ InFsCreate /\ pc = "done" /\ exit = "raised"
    /\ Len(log) = 4
    /\ log[3].ret = <<"in_progress">> /\ log[4].ret = <<"failed">>
    /\ FilesCreated # {} /\ VectorStoresCreated # {}
    /\ env = env0

InChat == variant = "Foundry" /\ cmd = <<"chat">>

\* a typed line that is an exit token once stripped, in any letter case
IsExitLine(line) == line # EOF /\ Lower(Strip(line)) \in ExitTokens

IsBlankLine(line) == \A i \in 1..Len(line) : line[i] = Space

\* the agent name of a persisted id: the id up to its first colon
IsNameOf(name, id) ==
    /\ ~HasColon(name)
    /\ Len(name) <= Len(id)
    /\ SubSeq(id, 1, Len(name)) = name
    /\ Len(name) < Len(id) => id[Len(name) + 1] = Colon

\* the remote calls owed for the lines typed before the exit token
RECURSIVE ExpectedTurns(_, _, _)
ExpectedTurns(lines, conv, agent) ==
    IF lines = <<>> THEN <<>>
    ELSE (IF IsBlankLine(Head(lines)) THEN <<>>
          ELSE <<Call("conversations.items.create",
                      <<conv, <<"user">>, Strip(Head(lines))>>, TRUE, None),
                 Call("responses.create", <<conv, agent>>, TRUE, None)>>)
         \o ExpectedTurns(Tail(lines), conv, agent)

\* a chat session that ended on an exit token
ChatEnded == InChat /\ pc = "done" /\ exit = "ok"

\* C8: a chat session whose first exit token is its last line has created
\* one conversation at its start, then for each non-blank line before the
\* exit token, in input order, appended one user item holding the stripped
\* line and next requested one response for the same conversation and the
\* agent name of the persisted id, issued nothing for a blank line, and
\* deleted that conversation once, as its last call.
C8_ChatSessionCalls ==
    ChatEnded =>
      LET n == Len(inputs)
          conv == log[1].ret
          agent == log[Len(log) - 1].args[2]
      IN  /\ n >= 1 /\ IsExitLine(inputs[n])
          /\ \A i \in 1..(n - 1) : ~IsExitLine(inputs[i])
          /\ log[1] = Call("conversations.create", <<>>, TRUE, conv)
          /\ Last(log).op = "conversations.delete"
          /\ Last(log).args = <<conv>>
          /\ Len(log) > 2 => IsNameOf(agent, env["AGENT_ID"])
          /\ SubSeq(log, 2, Len(log) - 1) =
                ExpectedTurns(SubSeq(inputs, 1, n - 1), conv, agent)

\* C8 witness: inputs ["hello", "exit"]: one conversation, one user item,
\* one response request, one delete.
C8_Witness ==
    /\ ChatEnded
    /\ inputs = <<<<"hello">>, <<"exit">>>>
    /\ Ops(log) = <<"conversations.create", "conversations.items.create",
                    "responses.create", "conversations.delete">>

\* C9: once an exit token was read the session issues the deletion of its
\* conversation and nothing else: it is about to delete, or it has ended
\* normally, whether the deletion succeeded or failed, with that single
\* delete as its last call.
C9_ExitDeletesAndEnds ==
    InChat =>
      /\ (inputs # <<>> /\ IsExitLine(Last(inputs))) =>
            \/ pc = "chat_delete" /\ exit = "running"
            \/ /\ pc = "done" /\ exit = "ok"
               /\ Last(log).op = "conversations.delete"
               /\ Last(log).args = <<loc.conversation>>
               /\ \A i \in 1..(Len(log) - 1) : log[i].op # "conversations.delete"
      /\ pc = "chat_delete" => inputs # <<>> /\ IsExitLine(Last(inputs))
      /\ \A i \in 1..Len(log) :
            log[i].op = "conversations.delete" =>
              i = Len(log) /\ pc = "done" /\ IsExitLine(Last(inputs))

\* C9 witness: " Q" ended the session although the deletion failed.
C9_Witness ==
    /\ InChat /\ pc = "done" /\ exit = "ok"
    /\ Last(inputs) = <<" ", "Q">>
    /\ ~Last(log).ok
    /\ loc.conversation \in remote.convs

OkCreate(h) == h.cmd = <<"create">> /\ h.exit = "ok"

\* the second of two successive successful create invocations has just ended
TwoCreatesEnded ==
    /\ pc = "done" /\ Len(hist) >= 2
    /\ OkCreate(hist[Len(hist) - 1]) /\ OkCreate(hist[Len(hist)])

FirstSet == hist[Len(hist) - 1]

SecondSet == hist[Len(hist)]

\* what both readings of C10 share: the second create ran its whole chain
\* and issued no delete, both sets of resources exist, and the two agents
\* share their name with versions v and v + 1 (1 and 2 when these are the
\* first two creations)
TwoSetsExist ==
    /\ \A i \in 1..Len(log) : log[i].op \notin DeleteOps
    /\ IF variant = "AgentId"
       THEN Ops(log) = <<"agents.create_version">>
       ELSE /\ Len(log) >= 4
            /\ log[1].op = "files.create" /\ log[2].op = "vector_stores.create"
            /\ \A i \in 3..(Len(log) - 1) : PollAt(i)
            /\ Last(log).op = "agents.create_version"
    /\ \E a1, a2 \in remote.agents :
          /\ a1.id = FirstSet.agent /\ a2.id = SecondSet.agent
          /\ a1.name = a2.name
          /\ a2.version = a1.version + 1
          /\ Len(hist) = 2 => a1.version = 1 /\ a2.version = 2
    /\ variant = "Foundry" =>
          /\ FirstSet.vector_store # SecondSet.vector_store
          /\ {FirstSet.vector_store, SecondSet.vector_store}
                \subseteq {v.id : v \in remote.vstores}
          /\ FirstSet.uploaded_file # SecondSet.uploaded_file
          /\ {FirstSet.uploaded_file, SecondSet.uploaded_file}
                \subseteq remote.files

InWait == InFsCreate /\ pc \in {"fs_wait", "fs_sleep"}

\* every retrieval of the running create so far reported in_progress
OnlyInProgressSoFar ==
    /\ InFsCreate /\ PollLog # <<>>
    /\ \A i \in 1..Len(PollLog) :
          PollLog[i].ok /\ PollLog[i].ret = <<"in_progress">>

\* this step is a retrieval that reports status st
Reports(st) == FsRetrieve /\ Last(log').ok /\ Last(log').ret = <<st>>

\* a retrieval reports a terminal status
ReportsTerminal == Reports("completed") \/ Reports("failed")

\* C11: the readiness wait has no bound on its polls.  As long as every
\* retrieval reported in_progress the create is still in the wait, running,
\* with no agent-creation call issued and its next turn enabled, however
\* many retrievals there were; a sleep is always followed by the next
\* retrieval; a retrieval leaves the wait for the agent creation on
\* completed, ends the create raised on failed and stays in the wait on
\* in_progress; and if the service (strongly fairly) reports a terminal
\* status, every wait is eventually left.
C11_UnboundedWait ==
    /\ [](OnlyInProgressSoFar =>
            /\ InWait /\ exit = "running"
            /\ \A i \in 1..Len(log) : log[i].op # "agents.create_version"
            /\ ENABLED (FsRetrieve \/ FsSleep))
    /\ [][InWait =>
            /\ pc = "fs_sleep" => pc' = "fs_wait"
            /\ Reports("in_progress") => pc' = "fs_sleep" /\ exit' = "running"
            /\ Reports("completed") => pc' = "fs_agent" /\ exit' = "running"
            /\ Reports("failed") => pc' = "done" /\ exit' = "raised"]_vars
    /\ (SF_vars(ReportsTerminal) => (InWait ~> ~InWait))

\* C11 witness: the wait is about to take one more turn after MaxPolls
\* retrievals that all reported in_progress.
C11_Witness ==
    /\ InFsCreate /\ pc = "fs_wait"
    /\ Len(PollLog) = MaxPolls
    /\ OnlyInProgressSoFar

\* the invocation that has just ended named none of the program's commands
NoCommand == cmd = None \/ cmd \notin Commands

\* the handler of the ended invocation met sys.exit(1): a variable it
\* requires was absent or empty when the invocation started
ExitedOnConfig ==
    IF variant = "AgentId"
    THEN CASE cmd = <<"create">> ->
                ~Truthy(env0["CHAT_MODEL_DEPLOYMENT"])
                    \/ ~Truthy(env0["PROJECT_ENDPOINT"])
           [] cmd = <<"delete">> ->
                Truthy(env0["AGENT_ID"]) /\ ~Truthy(env0["PROJECT_ENDPOINT"])
           [] OTHER -> ~Truthy(env0["PROJECT_ENDPOINT"])
    ELSE cmd = <<"chat">> /\ ~Truthy(env0["AGENT_ID"])

\* a failed call the handlers catch: the deletes of the teardown and of chat
Caught(c) == c.op \in DeleteOps \cup {"conversations.delete"}

\* an exception left the handler: no client without PROJECT_ENDPOINT in the
\* file-search program, no document, the end of input, a failed status, or
\* a failed call outside try/except
Uncaught ==
    \/ log = <<>>
    \/ Failure(Last(log)) /\ ~Caught(Last(log))
    \/ inputs # <<>> /\ Last(inputs) = EOF

\* C12 (as amended): an invocation whose command is missing or, lower-cased,
\* none of the program's commands exits with code 1, with no remote call
\* and no write; every command line that names a command in any letter case
\* starts that command's handler; an invocation with a known command exits
\* with code 0 exactly when its handler returns, and with code 1 when the
\* handler calls sys.exit(1) on a missing required variable or an
\* exception leaves it.
C12_ExitCodes ==
    /\ (pc = "done" /\ NoCommand) =>
          /\ exit = "exit1" /\ ExitCode(exit) = 1
          /\ log = <<>> /\ env = env0
    /\ (pc = "done" /\ ~NoCommand) =>
          /\ exit = "exit1" <=> ExitedOnConfig
          /\ exit = "exit1" => log = <<>>
          /\ exit = "raised" => Uncaught
          /\ ExitCode(exit) = 0 <=>
                /\ ~ExitedOnConfig
                /\ \A i \in 1..Len(log) : Failure(log[i]) => Caught(log[i])
                /\ log = <<>> =>
                      /\ cmd = <<"delete">>
                      /\ variant = "Foundry" => Truthy(env0["PROJECT_ENDPOINT"])
                /\ inputs # <<>> => Last(inputs) # EOF
    /\ (pc \in {"idle", "done"} /\ Len(hist) < MaxInvocations) =>
          \A a \in Argvs :
            ENABLED (/\ Main(a)
                     /\ IF a = None \/ Lower(a) \notin Commands
                        THEN pc' = "done" /\ exit' = "exit1"
                        ELSE pc' = Entry(Lower(a)) /\ exit' = "running")

\* C12 as stated: code 1 for a missing or unknown command and code 0 for
\* every invocation with a known command.
C12_Original ==
    pc = "done" => (ExitCode(exit) = 1 <=> NoCommand)

\* C12 witness: "chat" with AGENT_ID unset has exited with code 1.
C12_Witness ==
    /\ InChat /\ pc = "done"
    /\ env["AGENT_ID"] = None
    /\ exit = "exit1" /\ ExitCode(exit) = 1
    /\ log = <<>>

\* PROJECT_ENDPOINT is absent or empty
NoEndpoint == env["PROJECT_ENDPOINT"] \in {None, <<>>}

\* the function-tool delete with no persisted agent id: nothing to delete
NothingToDelete == InAiDelete /\ env["AGENT_ID"] \in {None, <<>>}

\* C13 (as amended): with PROJECT_ENDPOINT absent or empty, an invocation
\* of any command of either program ends in its first step, having issued
\* no remote call and left the State Store unchanged; it ends with an
\* error, except the function-tool delete with no persisted agent id,
\* which returns normally before it looks at PROJECT_ENDPOINT.
C13_EndpointRequired ==
    (NoEndpoint /\ ~NoCommand) =>
      /\ pc \in {Entry(cmd), "done"}
      /\ log = <<>>
      /\ env = env0
      /\ remote = EmptyRemote
      /\ pc = "done" =>
            IF NothingToDelete THEN exit = "ok" ELSE exit \in {"exit1", "raised"}

\* C13 as stated: with PROJECT_ENDPOINT absent or empty every command of
\* both programs ends with an error.
C13_Original ==
    (NoEndpoint /\ ~NoCommand) =>
      /\ pc \in {Entry(cmd), "done"}
      /\ log = <<>>
      /\ env = env0
      /\ pc = "done" => exit \in {"exit1", "raised"}

\* C13 witness: the file-search create has raised on an empty
\* PROJECT_ENDPOINT before any call.
C13_Witness ==
    /\ InFsCreate /\ pc = "done" /\ exit = "raised"
    /\ env["PROJECT_ENDPOINT"] = <<>>
    /\ log = <<>> /\ env = env0

\* the model deployment the configuration names: CHAT_MODEL_DEPLOYMENT, or
\* the file-search program's literal default when the variable is absent
ConfiguredModel ==
    IF env0["CHAT_MODEL_DEPLOYMENT"] = None /\ variant = "Foundry"
    THEN DefaultModel
    ELSE env0["CHAT_MODEL_DEPLOYMENT"]

\* C14: every agent-creation call of a create carries a non-empty model
\* deployment, equal to the configured one (the literal default when the
\* variable is defaulted); a create whose configured deployment is absent
\* or empty never creates an agent: it ends with an error.
C14_NonEmptyModel ==
    cmd = <<"create">> =>
      /\ \A i \in 1..Len(log) :
            log[i].op = "agents.create_version" =>
              /\ log[i].args[2] \notin {None, <<>>}
              /\ log[i].args[2] = ConfiguredModel
      /\ \A a \in CreatedAgents : a.model \notin {None, <<>>}
      /\ (pc = "done" /\ ConfiguredModel \in {None, <<>>}) =>
            exit \in {"exit1", "raised"}

\* C14 witness: the file-search create, CHAT_MODEL_DEPLOYMENT set to the
\* empty string, has created an agent whose model field is empty.
C14_Witness ==
    /\ InFsCreate /\ CreateSucceeded
    /\ env0["CHAT_MODEL_DEPLOYMENT"] = <<>>
    /\ Last(log).op = "agents.create_version" /\ Last(log).ok
    /\ Last(log).args[2] = <<>>
    /\ \E a \in CreatedAgents : a.model = <<>>

\* both simultaneous create invocations have ended successfully
BothCreated ==
    /\ InAiCreate /\ pc = "done" /\ exit = "ok"
    /\ peer.pc = "done" /\ peer.exit = "ok"

\* the State Store holds the AGENT_ID one invocation wrote and the
\* AGENT_NAME the other wrote
MixedStore ==
    /\ env["AGENT_ID"] = peer.agent /\ env["AGENT_ID"] # loc.agent
    /\ env["AGENT_NAME"] = loc.agent_name
    /\ env["AGENT_NAME"] # peer.agent_name

\* C15: the two State Store writes of a create are separate steps with no
\* lock: while one invocation stands between its write of AGENT_ID and its
\* write of AGENT_NAME, the pending write of the other invocation is
\* enabled, and the other way round; after both have ended each key holds
\* what either of them wrote, with nothing tying the two keys together;
\* only a create that ran alone is sure to leave its own pair.
C15_UnlockedWrites ==
    /\ (pc = "ai_set_name" /\ peer.pc = "ai_set_id") => ENABLED PeerSetAgentId
    /\ (pc = "ai_set_name" /\ peer.pc = "ai_set_name") =>
          ENABLED PeerSetAgentName
    /\ (peer.pc = "ai_set_name" /\ pc = "ai_set_id") => ENABLED AiSetAgentId
    /\ (peer.pc = "ai_set_name" /\ pc = "ai_set_name") => ENABLED AiSetAgentName
    /\ pc = "ai_set_name" =>
          env["AGENT_ID"] \in {loc.agent, peer.agent}
    /\ BothCreated =>
          /\ env["AGENT_ID"] \in {loc.agent, peer.agent}
          /\ env["AGENT_NAME"] \in {loc.agent_name, peer.agent_name}
    /\ (CreateSucceeded /\ peer.pc = "off") =>
          env["AGENT_ID"] = loc.agent /\ env["AGENT_NAME"] = loc.agent_name

\* C15 witness: both creates have ended; AGENT_ID is the one the second
\* process wrote ("MyAgent:1"), AGENT_NAME the one the first wrote
\* ("OneDrive-Agent").
C15_Witness ==
    /\ BothCreated /\ MixedStore
    /\ env["AGENT_ID"] = <<"MyAgent", ":", "1">>
    /\ env["AGENT_NAME"] = <<"OneDrive-Agent">>

\* C16: the file-search create issues its calls in the order files.create,
\* vector_stores.create, retrievals, agents.create_version, the first, the
\* second and the last at most once each; a successful create has issued
\* each of the three exactly once with one or more retrievals in between;
\* the vector store is created with exactly the file id this invocation's
\* upload returned, every retrieval targets the vector store that creation
\* returned, and the agent is created with that vector-store id as the one
\* its file-search tool references.
C16_CreateCallOrder ==
    InFsCreate =>
      /\ \A i \in 1..Len(log) :
            /\ log[i].op \in {"files.create", "vector_stores.create",
                               "vector_stores.retrieve", "agents.create_version"}
            /\ log[i].op = "files.create" <=> i = 1
            /\ log[i].op = "vector_stores.create" <=> i = 2
            /\ log[i].op = "vector_stores.create" =>
                  /\ log[1].ok
                  /\ log[i].args = <<VectorStoreName, log[1].ret>>
            /\ log[i].op = "vector_stores.retrieve" =>
                  /\ i >= 3 /\ log[2].ok
                  /\ log[i].args = <<log[2].ret>>
            /\ log[i].op = "agents.create_version" =>
                  /\ i >= 4 /\ i = Len(log)
                  /\ PollAt(i - 1)
                  /\ log[i].args[1] = IaCAgentName
                  /\ log[i].args[3] = log[2].ret
      /\ CreateSucceeded =>
            /\ Len(log) >= 4
            /\ Last(log).op = "agents.create_version" /\ Last(log).ok
            /\ \A i \in 3..(Len(log) - 1) : PollAt(i)
            /\ \A a \in CreatedAgents : a.vs = log[2].ret
            /\ \E v \in remote.vstores :
                  v.id = log[2].ret /\ v.file_ids = {log[1].ret}
            /\ log[1].ret \in remote.files

\* C16 witness: a successful create whose calls were upload, vector store,
\* two retrievals, agent.
C16_Witness ==
    /\ InFsCreate /\ CreateSucceeded
    /\ Ops(log) = <<"files.create", "vector_stores.create",
                    "vector_stores.retrieve", "vector_stores.retrieve",
                    "agents.create_version">>
    /\ log[2].args[2] = log[1].ret
    /\ log[5].args[3] = log[2].ret

\* the delete calls (operation and arguments) a delete invocation owes to
\* the State Store e: nothing else decides them
DeleteCalls(e) ==
    IF ~Truthy(e["PROJECT_ENDPOINT"]) THEN <<>>
    ELSE IF variant = "AgentId"
    THEN IF Truthy(e["AGENT_ID"])
         THEN <<<<"agents.delete_version",
                  AiDeleteTarget(e["AGENT_ID"],
                                 IF e["AGENT_NAME"] = None THEN DefaultAgentName
                                 ELSE e["AGENT_NAME"])>>>>
         ELSE <<>>
    ELSE (IF Truthy(e["AGENT_ID"])
          THEN <<<<"agents.delete_version", FsDeleteTarget(e["AGENT_ID"])>>>>
          ELSE <<>>)
         \o (IF Truthy(e["VECTORSTORE_ID"])
             THEN <<<<"vector_stores.delete", <<e["VECTORSTORE_ID"]>>>>>>
             ELSE <<>>)
         \o (IF Truthy(e["FILE_ID"])
             THEN <<<<"files.delete", <<e["FILE_ID"]>>>>>>
             ELSE <<>>)

\* the operation and arguments of each call of the log
Attempts == [i \in 1..Len(log) |-> <<log[i].op, log[i].args>>]

\* C17: only a create writes the State Store: every step that changes a
\* key is a step of a create invocation; through every delete, list and
\* chat invocation, whatever its calls return, the State Store is what it
\* was when the invocation started; and a finished delete has attempted
\* exactly the deletions the State Store names, so a delete that follows a
\* delete finds the same identifiers and attempts the same deletions.
C17_OnlyCreateWrites ==
    /\ [][env' # env => cmd = <<"create">> /\ cmd' = <<"create">>]_vars
    /\ [](cmd # <<"create">> => env = env0)
    /\ []((cmd = <<"delete">> /\ pc = "done") => Attempts = DeleteCalls(env))
    /\ []((cmd = <<"delete">> /\ pc = "done" /\ Len(hist) >= 2
              /\ hist[Len(hist) - 1].cmd = <<"delete">>) =>
            /\ Attempts = DeleteCalls(env0)
            /\ \A k \in Keys : Truthy(env0[k]) => env[k] = env0[k])

\* C17 witness: a second file-search delete in a row has attempted the
\* deletions of the agent, the vector store and the file again, all three
\* identifiers still being in the State Store.
C17_Witness ==
    /\ InFsDelete /\ pc = "done" /\ Len(hist) = 2
    /\ hist[1].cmd = <<"delete">> /\ hist[1].exit = "ok"
    /\ Ops(log) = <<"agents.delete_version", "vector_stores.delete",
                    "files.delete">>
    /\ \A i \in 1..3 : log[i].ok
    /\ env["AGENT_ID"] = <<"IaCDocumentAgent", ":", "1">>
    /\ env["VECTORSTORE_ID"] = <<"vs_old">>
    /\ env["FILE_ID"] = <<"file-old">>

\* the agent name the file-search delete extracts from a persisted id
DeleteAgentName(agent_id) == FsDeleteTarget(agent_id)[1]

\* C18: for every persisted agent id, the agent name a chat session scopes
\* its response requests to is the agent name delete extracts from the
\* same id, ids with more than one colon included.
C18_SameAgentName ==
    InChat =>
      /\ pc \notin {"chat", "done"} =>
            loc.agent_name = DeleteAgentName(env["AGENT_ID"])
      /\ \A i \in 1..Len(log) :
            log[i].op = "responses.create" =>
              log[i].args[2] = DeleteAgentName(env["AGENT_ID"])

\* C18 witness: with the persisted id "My:Agent:3" a response request was
\* scoped to the agent "My", where delete extracts "My:Agent".
C18_Witness ==
    /\ InChat /\ env["AGENT_ID"] = <<"My", ":", "Agent", ":", "3">>
    /\ log # <<>> /\ Last(log).op = "responses.create"
    /\ Last(log).args[2] = <<"My">>
    /\ DeleteAgentName(env["AGENT_ID"]) = <<"My", ":", "Agent">>

\* the place of a delete call in the teardown: the inverse of the order in
\* which create makes the resources (file, vector store, agent)
DeleteRank(op) ==
    CASE op = "agents.delete_version" -> 1
      [] op = "vector_stores.delete" -> 2
      [] op = "files.delete" -> 3
      [] OTHER -> 0

\* C19: at every point of every delete invocation the deletion attempts
\* issued so far are in the order agent, vector store, file, each at most
\* once, whatever each attempt returned: no attempt follows one of a
\* resource created before its own.
C19_InverseOrder ==
    (InFsDelete \/ InAiDelete) =>
      /\ \A i \in 1..Len(log) : DeleteRank(log[i].op) > 0
      /\ \A i, j \in 1..Len(log) :
            i < j => DeleteRank(log[i].op) < DeleteRank(log[j].op)
      /\ pc = "fs_del_agent" => log = <<>>
      /\ pc = "fs_del_vs" =>
            \A i \in 1..Len(log) : log[i].op = "agents.delete_version"
      /\ pc = "fs_del_file" =>
            \A i \in 1..Len(log) : log[i].op # "files.delete"

\* C19 witness: the agent deletion failed, the vector-store deletion that
\* followed succeeded, the file deletion came last and failed.
C19_Witness ==
    /\ InFsDelete /\ pc = "done"
    /\ Ops(log) = <<"agents.delete_version", "vector_stores.delete",
                    "files.delete">>
    /\ ~log[1].ok /\ log[2].ok /\ ~log[3].ok

\* the calls of a chat turn
TurnOps == {"conversations.items.create", "responses.create"}

\* C20: in a chat session every response request directly follows a
\* successful append of a user item to the same conversation, the one the
\* session created; a failed append or a failed response request is the
\* last call of the session, which has ended with the error, has issued no
\* deletion of the conversation, and has left it on the server.
C20_TurnFailureAborts ==
    InChat =>
      \A i \in 1..Len(log) :
        /\ log[i].op = "responses.create" =>
              /\ i > 1
              /\ log[i - 1].op = "conversations.items.create"
              /\ log[i - 1].ok
              /\ log[i - 1].args[1] = log[i].args[1]
              /\ log[1].op = "conversations.create" /\ log[1].ok
              /\ log[i].args[1] = log[1].ret
        /\ (log[i].op \in TurnOps /\ ~log[i].ok) =>
              /\ i = Len(log)
              /\ pc = "done" /\ exit = "raised"
              /\ \A j \in 1..Len(log) : log[j].op # "conversations.delete"
              /\ log[1].ret \in remote.convs
        /\ (log[i].op = "conversations.items.create" /\ log[i].ok) =>
              \/ i = Len(log) /\ pc = "chat_respond"
              \/ i < Len(log) /\ log[i + 1].op = "responses.create"

\* C20 witness: the response request of the second turn failed; the
\* session has ended with the error and its conversation is still there.
C20_Witness ==
    /\ InChat /\ pc = "done" /\ exit = "raised"
    /\ Ops(log) = <<"conversations.create", "conversations.items.create",
                    "responses.create", "conversations.items.create",
                    "responses.create">>
    /\ log[3].ok /\ ~log[5].ok
    /\ log[1].ret \in remote.convs

====
